---- MODULE Spec2Model ----
(***************************************************************************)
(* A model of copilot_changelog_to_discord.py: the seen-state store        *)
(* (load_state / save_state on seen.json), and the delivery pipeline of    *)
(* main (fetch, filter, dedupe, sort, cap, render, post, persist).         *)
(*                                                                         *)
(* Strings are tuples of one-character strings, so that emptiness, order   *)
(* and length are computed as Python computes them.                        *)
(***************************************************************************)
EXTENDS Integers, Sequences, FiniteSets, TLC

VARIABLES
    file,       \* the content of seen.json (STATE_FILE) on disk
    file0,      \* history: the content of seen.json in the initial state
    pc,         \* per process: where it stands in load_state / save_state
    arg,        \* per process: the ids passed to the save_state call in progress
    existing,   \* per process: save_state's local `existing`
    pre,        \* per process, history: seen.json when the call in progress began
    budget,     \* per process: store calls it may still make
    calls,      \* history: the completed store calls, in order of completion
    overlap,    \* history: a save_state call began while another was in progress
    env,        \* the environment variables the module reads at import
    feed,       \* the entries FEED_URL serves
    llm,        \* how the two generation services answer during the run
    clock,      \* what datetime.now(timezone.utc) returns next
    mpc,        \* main: where the run stands
    rc,         \* main: the value returned, -1 before it returns
    entries,    \* main: entries
    seen,       \* main: seen
    filtered,   \* main: filtered after the sort, as positions in entries
    keys,       \* history: the sort key of each element of filtered
    to_send,    \* main: to_send, as positions in entries
    embeds,     \* main: embeds
    idx,        \* main: the position in to_send of the per-item loops
    all_ok,     \* main: all_ok
    posted_ids, \* main: posted_ids
    posts,      \* history: the calls of post_to_discord, in order
    feed_fetches,   \* history: calls of fetch_feed
    gen_requests,   \* history: requests to the generation services
    file_reads,     \* history: reads of seen.json by main
    file_writes,    \* history: writes of seen.json by main
    input,      \* the arguments a helper is called with
    called,     \* the helper that was called, "none" before the call
    returned,   \* what the call returned
    run,        \* which run of main this is, counted from 1
    past        \* history: the posts and exit code of each earlier run

storeVars == <<pc, arg, existing, pre, budget, calls, overlap>>

worldVars == <<env, feed, llm>>

mainVars ==
    <<clock, mpc, rc, entries, seen, filtered, keys, to_send, embeds, idx, all_ok,
      posted_ids, posts, feed_fetches, gen_requests, file_reads, file_writes>>

helperVars == <<input, called, returned>>

runVars == <<run, past>>

vars == <<file, file0, storeVars, worldVars, mainVars, helperVars, runVars>>

----------------------------------------------------------------------------
(* Strings *)

\* The characters the model uses, in code point order. "\n" is the line feed;
\* "ndash", "mdash" and "hellip" stand for the single characters U+2013,
\* U+2014 and U+2026.
Ascii ==
    <<"\n", " ", "!", "\"", "#", "'", ",", "-", ".", "1", "2", "3", "4", "5", "6",
      "7", "8", ":", ";", "<", ">", "?", "C", "G", "I", "L", "N", "O", "P", "T", "U",
      "a", "b", "c", "d",
      "e", "g", "h", "i", "l", "n", "o", "p", "t", "u", "w", "x",
      "ndash", "mdash", "hellip">>

Chars == {Ascii[i] : i \in DOMAIN Ascii}

Code(c) == CHOOSE i \in 1..Len(Ascii) : Ascii[i] = c

Min(a, b) == IF a <= b THEN a ELSE b

\* Python's s < t on str: lexicographic by code point.
StrLess(s, t) ==
    \E i \in 1..(Min(Len(s), Len(t)) + 1) :
        /\ \A j \in 1..(i - 1) : s[j] = t[j]
        /\ \/ i > Len(s) /\ i <= Len(t)
           \/ i <= Len(s) /\ i <= Len(t) /\ Code(s[i]) < Code(t[i])

Range(q) == {q[i] : i \in DOMAIN q}

\* sorted(ids) for a set of strings
RECURSIVE sorted(_)
sorted(S) ==
    IF S = {} THEN <<>>
    ELSE LET m == CHOOSE x \in S : \A y \in S \ {x} : StrLess(x, y)
         IN  <<m>> \o sorted(S \ {m})

RECURSIVE SumLen(_)
SumLen(q) == IF q = <<>> THEN 0 ELSE Len(Head(q)) + SumLen(Tail(q))

----------------------------------------------------------------------------
(* Text helpers *)

\* str.isspace for the characters of the model
Whitespace == {" ", "\n"}

\* str.lower on one character
LowerChar(c) ==
    CASE c = "C" -> "c"
      [] c = "G" -> "g"
      [] c = "I" -> "i"
      [] c = "L" -> "l"
      [] c = "N" -> "n"
      [] c = "O" -> "o"
      [] c = "P" -> "p"
      [] c = "T" -> "t"
      [] c = "U" -> "u"
      [] OTHER -> c

\* s.lower()
Lower(s) == [i \in DOMAIN s |-> LowerChar(s[i])]

\* Python's s[:k]: a negative k counts from the end
Prefix(s, k) ==
    LET n == IF k >= 0 THEN Min(k, Len(s))
             ELSE IF Len(s) + k > 0 THEN Len(s) + k ELSE 0
    IN  SubSeq(s, 1, n)

\* s.lstrip(chars), s.rstrip(chars), s.strip(chars)
RECURSIVE LStrip(_, _)
LStrip(s, cs) ==
    IF s # <<>> /\ Head(s) \in cs THEN LStrip(Tail(s), cs) ELSE s

RECURSIVE RStrip(_, _)
RStrip(s, cs) ==
    IF s # <<>> /\ s[Len(s)] \in cs THEN RStrip(SubSeq(s, 1, Len(s) - 1), cs) ELSE s

Strip(s, cs) == LStrip(RStrip(s, cs), cs)

\* sub in s
Contains(s, sub) ==
    \E i \in 0..(Len(s) - Len(sub)) : SubSeq(s, i + 1, i + Len(sub)) = sub

\* re.sub(r"\s+", " ", s)
RECURSIVE CollapseWs(_)
CollapseWs(s) ==
    IF s = <<>> THEN <<>>
    ELSE IF Head(s) \in Whitespace
         THEN <<" ">> \o CollapseWs(LStrip(s, Whitespace))
         ELSE <<Head(s)>> \o CollapseWs(Tail(s))

\* sep.join(parts)
RECURSIVE Join(_, _)
Join(parts, sep) ==
    IF parts = <<>> THEN <<>>
    ELSE IF Len(parts) = 1 THEN parts[1]
    ELSE parts[1] \o sep \o Join(Tail(parts), sep)

\* The characters html.parser lets open a tag after "<": a letter, or "/"
Letters ==
    {"C", "G", "I", "L", "N", "O", "P", "T", "U", "a", "b", "c", "d", "e", "g",
     "h", "i", "l", "n", "o", "p", "t", "u", "w", "x"}
TagOpeners == Letters \cup {"/"}

\* The text nodes of a document, in order: the runs of characters outside the
\* tags, a tag being "<" and a tag opener up to the next ">". Any other "<",
\* and a "<" that no ">" follows, is text.
RECURSIVE TextNodes(_, _)
TextNodes(s, cur) ==
    IF s = <<>> THEN (IF cur = <<>> THEN <<>> ELSE <<cur>>)
    ELSE IF /\ Head(s) = "<" /\ Len(s) >= 2 /\ s[2] \in TagOpeners
            /\ \E j \in 2..Len(s) : s[j] = ">"
         THEN LET j == CHOOSE k \in 2..Len(s) :
                           s[k] = ">" /\ \A m \in 2..(k - 1) : s[m] # ">"
              IN  (IF cur = <<>> THEN <<>> ELSE <<cur>>)
                  \o TextNodes(SubSeq(s, j + 1, Len(s)), <<>>)
         ELSE TextNodes(Tail(s), Append(cur, Head(s)))

\* BeautifulSoup keeps a text node that is all whitespace as one line feed,
\* if it holds one, else as one space.
Squeezed(node) ==
    IF \A i \in DOMAIN node : node[i] \in Whitespace
    THEN (IF \E i \in DOMAIN node : node[i] = "\n" THEN <<"\n">> ELSE <<" ">>)
    ELSE node

\* strip_html: BeautifulSoup(text, "html.parser").get_text(" ")
strip_html(text) ==
    LET nodes == TextNodes(text, <<>>)
    IN  Join([i \in DOMAIN nodes |-> Squeezed(nodes[i])], <<" ">>)

\* basic_summary's ellipsis marker
Ellipsis == <<"hellip">>

\* s.split(): the whitespace-separated words
RECURSIVE Words(_, _)
Words(s, cur) ==
    IF s = <<>> THEN (IF cur = <<>> THEN <<>> ELSE <<cur>>)
    ELSE IF Head(s) \in Whitespace
         THEN (IF cur = <<>> THEN <<>> ELSE <<cur>>) \o Words(Tail(s), <<>>)
         ELSE Words(Tail(s), Append(cur, Head(s)))

\* s.splitlines() on "\n"
RECURSIVE Lines(_, _)
Lines(s, cur) ==
    IF s = <<>> THEN (IF cur = <<>> THEN <<>> ELSE <<cur>>)
    ELSE IF Head(s) = "\n" THEN <<cur>> \o Lines(Tail(s), <<>>)
         ELSE Lines(Tail(s), Append(cur, Head(s)))

\* re.split(r"[.!?]\s|\n", s, maxsplit=1)[0]
FirstSentence(s) ==
    LET cut(i) == \/ s[i] = "\n"
                  \/ s[i] \in {".", "!", "?"} /\ i < Len(s) /\ s[i + 1] \in Whitespace
    IN  IF \E i \in DOMAIN s : cut(i)
        THEN LET i == CHOOSE k \in DOMAIN s : cut(k) /\ \A m \in 1..(k - 1) : ~cut(m)
             IN  SubSeq(s, 1, i - 1)
        ELSE s

\* The characters _clean_title strips from the end: [\s\-–—:.,;!?#]
TrailingPunct == Whitespace \cup {"-", "ndash", "mdash", ":", ".", ",", ";", "!", "?", "#"}

\* _clean_title lines 215-217: the cut of the cleaned text s at max_len
CutTitle(s, max_len) ==
    IF Len(s) > max_len THEN RStrip(Prefix(s, max_len), Whitespace) ELSE s

\* _clean_title
_clean_title(raw, max_len) ==
    LET s1 == Strip(strip_html(raw), Whitespace)
        s2 == CollapseWs(s1)
        s3 == Strip(s2, {"'", "\"", " "})
        s4 == RStrip(s3, TrailingPunct)
    IN  CutTitle(s4, max_len)

----------------------------------------------------------------------------
(* seen.json *)

\* The identifiers of the store harness.
IdPool == {<<"a">>, <<"b", "b">>, <<"c">>}

\* The number of characters json.dump(data, f, indent=2) writes for a list of
\* plain strings: "[]" for the empty list, else "[\n" + the items, each
\* indented by two and quoted, joined by ",\n" + "\n]".
JsonLen(data) ==
    IF data = <<>> THEN 2
    ELSE 2 + (4 * Len(data) + SumLen(data)) + 2 * (Len(data) - 1) + 2

\* seen.json holds a JSON array of strings
ArrayFile(data) == [kind |-> "array", data |-> data, len |-> JsonLen(data)]

\* there is no seen.json
AbsentFile == [kind |-> "absent", data |-> <<>>, len |-> 0]

\* seen.json exists and open() or read() fails on it (no read permission,
\* bytes that are not UTF-8): an OSError or a UnicodeDecodeError
UnreadableFile == [kind |-> "unreadable", data |-> <<>>, len |-> 9]

\* seen.json holds text that is not JSON (the empty file included)
TextFile(n) == [kind |-> "text", data |-> <<>>, len |-> n]

\* seen.json holds valid JSON that is not an array, such as {}
OtherJsonFile == [kind |-> "json", data |-> <<>>, len |-> 2]

FileStates ==
    {AbsentFile, UnreadableFile, TextFile(0), TextFile(9), OtherJsonFile}
    \cup {ArrayFile(sorted(S)) : S \in SUBSET IdPool}

\* The isinstance test inverted: a list is taken for a foreign document.
load_state_rejects_list(f) ==
    [raised |-> f.kind = "unreadable", value |-> {}]

\* load_state: what the call returns, or that it raises. Only
\* FileNotFoundError and json.JSONDecodeError are caught.
load_state(f) ==
    CASE f.kind = "array"      -> [raised |-> FALSE, value |-> {f.data[i] : i \in DOMAIN f.data}]
      [] f.kind = "json"       -> [raised |-> FALSE, value |-> {}]
      [] f.kind = "absent"     -> [raised |-> FALSE, value |-> {}]
      [] f.kind = "text"       -> [raised |-> FALSE, value |-> {}]
      [] f.kind = "unreadable" -> [raised |-> TRUE, value |-> {}]

\* The merge dropped: only the new ids are written.
merged_overwrite(exist, ids) == ids

\* save_state line 75: merged = list(existing.union(set(ids)))
merged(exist, ids) == exist \cup ids

\* open(path, "w"): the file exists and is empty
Truncated(f) == TextFile(0)

\* The file after json.dump(sorted(merged), f) and close on a handle opened
\* with "w": the text goes to offset 0; whatever another writer put beyond
\* its end since the open stays, and the file is then no JSON document.
Dumped(f, ids) ==
    LET data == sorted(ids)
    IN  IF f.len <= JsonLen(data) THEN ArrayFile(data) ELSE TextFile(f.len)

\* save_state with no other process touching the file
save_state(f, ids) ==
    LET r == load_state(f)
    IN  IF r.raised THEN [raised |-> TRUE, file |-> f]
        ELSE [raised |-> FALSE,
              file |-> Dumped(Truncated(f), merged(r.value, ids))]

----------------------------------------------------------------------------
(* Feed entries: a sparse mapping, as EntryDict; a key that is absent is *)
(* absent from the record's domain.                                        *)

Has(e, k) == k \in DOMAIN e

\* entry.get(k) is truthy, for a key that holds a string or a list
Truthy(e, k) == Has(e, k) /\ e[k] # <<>>

\* entry.get(k) or ""
GetOrEmpty(e, k) == IF Truthy(e, k) THEN e[k] ELSE <<>>

\* The link preferred over the id.
entry_fingerprint_link_first(entry) ==
    IF Truthy(entry, "link") THEN entry["link"]
    ELSE IF Truthy(entry, "id") THEN entry["id"]
    ELSE IF Truthy(entry, "guid") THEN entry["guid"]
    ELSE IF Truthy(entry, "entry_id") THEN entry["entry_id"]
    ELSE IF Truthy(entry, "title") THEN entry["title"]
    ELSE <<>>

\* entry_fingerprint
entry_fingerprint(entry) ==
    IF Truthy(entry, "id") THEN entry["id"]
    ELSE IF Truthy(entry, "guid") THEN entry["guid"]
    ELSE IF Truthy(entry, "entry_id") THEN entry["entry_id"]
    ELSE IF Truthy(entry, "link") THEN entry["link"]
    ELSE IF Truthy(entry, "title") THEN entry["title"]
    ELSE <<>>

copilot == <<"c", "o", "p", "i", "l", "o", "t">>

\* is_copilot_tagged line 101
needles == {copilot, <<"g", "i", "t", "h", "u", "b", " ">> \o copilot}

\* is_copilot_tagged lines 105-111: one tag's term or label matches
TagMatches(t) ==
    \E key \in {"term", "label"} :
        LET val == IF Has(t, key) THEN t[key] ELSE <<>>
        IN  \/ val # <<>> /\ Lower(val) \in needles
            \/ Contains(Lower(val), copilot)

\* The fields compared as they are, not lowered.
is_copilot_tagged_case_sensitive(entry) ==
    LET tags == GetOrEmpty(entry, "tags")
    IN  \/ \E i \in DOMAIN tags : \E key \in {"term", "label"} :
              Has(tags[i], key) /\ Contains(tags[i][key], copilot)
        \/ Has(entry, "category") /\ Contains(entry["category"], copilot)
        \/ Contains(GetOrEmpty(entry, "title"), copilot)

\* is_copilot_tagged
is_copilot_tagged(entry) ==
    LET tags == GetOrEmpty(entry, "tags")
    IN  \/ \E i \in DOMAIN tags : TagMatches(tags[i])
        \/ Has(entry, "category") /\ Contains(Lower(entry["category"]), copilot)
        \/ Contains(Lower(GetOrEmpty(entry, "title")), copilot)

\* A "published" string, by what dateutil's parser makes of it: no date
\* ("garbage": the parser raises), or a date and time `wall`, with a UTC
\* offset `off` when `aware`.
PubDate(wall, aware, off) == [kind |-> "date", wall |-> wall, aware |-> aware, off |-> off]
PubGarbage == [kind |-> "garbage", wall |-> 0, aware |-> FALSE, off |-> 0]
PubEmpty == [kind |-> "empty", wall |-> 0, aware |-> FALSE, off |-> 0]

\* A "published_parsed" value: a time.struct_time (UTC, to the second), or a
\* value datetime(*v[:6]) raises on.
ParsedTime(wall) == [kind |-> "struct", wall |-> wall]
ParsedBad == [kind |-> "bad", wall |-> 0]

\* entry_datetime_utc: the UTC instant, and whether datetime.now was read.
\* `now` is what datetime.now(timezone.utc) returns at the call.
entry_datetime_utc(entry, now) ==
    LET pub == IF Has(entry, "published") THEN entry["published"] ELSE PubEmpty
        ts1 == IF pub.kind = "date"
               THEN <<IF pub.aware THEN pub.wall - pub.off ELSE pub.wall>>
               ELSE <<>>
        ts2 == IF ts1 = <<>> /\ Has(entry, "published_parsed")
                             /\ entry["published_parsed"].kind = "struct"
               THEN <<entry["published_parsed"].wall>>
               ELSE ts1
    IN  IF ts2 = <<>> THEN [ts |-> now, read |-> TRUE]
        ELSE [ts |-> ts2[1], read |-> FALSE]

\* The cut taken at max_len, leaving no room for the marker.
basic_summary_uncut(entry, max_len) ==
    LET raw == GetOrEmpty(entry, "summary")
        clean == Strip(strip_html(raw), Whitespace)
    IN  IF Len(clean) <= max_len THEN clean
        ELSE RStrip(Prefix(clean, max_len), Whitespace) \o Ellipsis

\* basic_summary
basic_summary(entry, max_len) ==
    LET raw == GetOrEmpty(entry, "summary")
        clean == Strip(strip_html(raw), Whitespace)
    IN  IF Len(clean) <= max_len THEN clean
        ELSE RStrip(Prefix(clean, max_len - 1), Whitespace) \o Ellipsis

----------------------------------------------------------------------------
(* Configuration: the module-level names read from the environment *)

\* Lines 23-27: a variable that is unset or empty is falsy.
DISCORD_WEBHOOK_URL == env.webhook_url
DISCORD_THREAD_ID == env.thread_id
DISCORD_THREAD_NAME == env.thread_name
OPENAI_API_KEY == env.openai_key
GITHUB_MODELS_TOKEN == env.github_token

\* The default of line 33 changed to "auto".
DISCORD_FORUM_MODE_auto ==
    IF env.forum_mode = "unset" THEN "auto" ELSE env.forum_mode

\* Line 33: os.environ.get("DISCORD_FORUM_MODE", "per-item").strip().lower()
DISCORD_FORUM_MODE ==
    IF env.forum_mode = "unset" THEN "per-item" ELSE env.forum_mode

\* Line 35 read as if the flag were never set.
FORCE_POST_off == FALSE

\* Line 35
FORCE_POST == env.force_post
DRY_RUN == env.dry_run

MAX_ITEMS_PER_RUN == 5

\* The max_len defaults of _clean_title and basic_summary
TitleMax == 90
SummaryMax == 420

----------------------------------------------------------------------------
(* Summarizer. A call returns its value and the number of requests it made *)
(* to a generation service. None is <<>>, a string s is <<s>>.             *)

\* *_llm_bulleted_summary lines 190-202, on the service's reply
SummaryOf(reply) ==
    LET msg == Strip(reply.summary, Whitespace)
        all == Lines(msg, <<>>)
        stripped == [i \in DOMAIN all |-> Strip(all[i], Whitespace)]
        lines == SelectSeq(stripped, LAMBDA ln : ln # <<>>)
    IN  IF ~reply.ok \/ msg = <<>> \/ lines = <<>> THEN <<>>
        ELSE <<Join(Prefix(lines, 4), <<"\n">>)>>

\* *_llm_thread_title lines 240-248, on the service's reply
TitleOf(reply) ==
    IF ~reply.ok \/ Strip(reply.title, Whitespace) = <<>>
    THEN <<>>
    ELSE SelectSeq(<<_clean_title(reply.title, TitleMax)>>, LAMBDA title : title # <<>>)

github_llm_bulleted_summary(entry, token) ==
    IF ~token THEN [val |-> <<>>, reqs |-> 0]
    ELSE [val |-> SummaryOf(llm.github), reqs |-> 1]

openai_llm_bulleted_summary(entry, api_key) ==
    IF ~api_key THEN [val |-> <<>>, reqs |-> 0]
    ELSE [val |-> SummaryOf(llm.openai), reqs |-> 1]

github_llm_thread_title(entry, token) ==
    IF ~token THEN [val |-> <<>>, reqs |-> 0]
    ELSE [val |-> TitleOf(llm.github), reqs |-> 1]

openai_llm_thread_title(entry, api_key) ==
    IF ~api_key THEN [val |-> <<>>, reqs |-> 0]
    ELSE [val |-> TitleOf(llm.openai), reqs |-> 1]

\* The preference order of summarize_entry (lines 330-342) and of
\* derive_thread_name (lines 354-363): GitHub Models' answer, else OpenAI's,
\* else the local fallback; OpenAI is asked only when GitHub gave nothing.
FirstAnswer(gh, oa, fallback) ==
    IF gh.val # <<>> THEN [text |-> gh.val[1], reqs |-> gh.reqs]
    ELSE IF oa.val # <<>> THEN [text |-> oa.val[1], reqs |-> gh.reqs + oa.reqs]
    ELSE [text |-> fallback, reqs |-> gh.reqs + oa.reqs]

\* summarize_entry
summarize_entry(entry) ==
    FirstAnswer(github_llm_bulleted_summary(entry, GITHUB_MODELS_TOKEN),
                openai_llm_bulleted_summary(entry, OPENAI_API_KEY),
                basic_summary(entry, SummaryMax))

DefaultThreadTitle ==
    <<"G", "i", "t", "H", "u", "b", " ", "C", "o", "p", "i", "l", "o", "t", " ",
      "C", "h", "a", "n", "g", "e", "l", "o", "g">>

\* derive_thread_name lines 372-374: at most the first 10 words of `first`
FirstWords(first) ==
    LET words == Words(first, <<>>)
    IN  IF Len(words) > 10 THEN Join(Prefix(words, 10), <<" ">>) ELSE first

\* derive_thread_name line 375: first or "GitHub Copilot Changelog"
OrDefaultTitle(first) == IF first # <<>> THEN first ELSE DefaultThreadTitle

\* derive_thread_name lines 365-375: no generation service gave a title
FallbackTitle(entry) ==
    LET raw == Strip(GetOrEmpty(entry, "title"), Whitespace)
        bs == basic_summary(entry, 90)
        first == FirstSentence(bs)
    IN  IF raw # <<>> THEN _clean_title(raw, TitleMax)
        ELSE _clean_title(OrDefaultTitle(FirstWords(first)), TitleMax)

\* derive_thread_name
derive_thread_name(entry) ==
    FirstAnswer(github_llm_thread_title(entry, GITHUB_MODELS_TOKEN),
                openai_llm_thread_title(entry, OPENAI_API_KEY),
                FallbackTitle(entry))

DefaultEmbedTitle ==
    <<"G", "i", "t", "H", "u", "b", " ", "C", "h", "a", "n", "g", "e", "l", "o", "g">>

DefaultEmbedUrl ==
    <<"h", "t", "t", "p", "s", ":", "/", "/", "g", "i", "t", "h", "u", "b", ".",
      "b", "l", "o", "g", "/", "c", "h", "a", "n", "g", "e", "l", "o", "g", "/">>

\* to_discord_embed lines 400-409: the embed of the entry, given its summary
\* sm and its date dt
EmbedOf(entry, sm, dt) ==
    [embed |-> [title |-> IF Has(entry, "title") THEN entry["title"]
                          ELSE DefaultEmbedTitle,
                url |-> IF Has(entry, "link") THEN entry["link"]
                        ELSE DefaultEmbedUrl,
                description |-> sm.text,
                timestamp |-> dt.ts],
     reqs |-> sm.reqs,
     read |-> dt.read]

\* to_discord_embed(entry): the Embed, the requests made, and whether
\* datetime.now was read. The timestamp is the UTC instant isoformat renders.
to_discord_embed(entry, now) ==
    EmbedOf(entry, summarize_entry(entry), entry_datetime_utc(entry, now))

----------------------------------------------------------------------------
(* Notifier *)

\* What requests.post does: a 2xx response, another status, or a
\* requests.RequestException.
HttpOutcomes == {"2xx", "error_status", "exception"}

\* post_to_discord(embeds, thread_name): the call's first result (ok),
\* whether requests.post was called (sent), and with which payload. ok after
\* a request means a 2xx response; a failure is another status or an
\* exception. thread_name is <<>> for None, <<s>> for a string.
post_to_discord(embs, thread_name, outcome) ==
    LET chosen == IF thread_name # <<>> /\ thread_name[1] # <<>> THEN thread_name
                  ELSE IF DISCORD_THREAD_NAME # <<>> THEN <<DISCORD_THREAD_NAME>>
                  ELSE <<>>
        req == [embeds |-> embs,
                thread_id |-> DISCORD_THREAD_ID,
                thread_name |-> IF chosen # <<>> /\ ~DISCORD_THREAD_ID
                                THEN chosen ELSE <<>>]
    IN  IF ~DISCORD_WEBHOOK_URL
        THEN [ok |-> FALSE, sent |-> FALSE, request |-> req]
        ELSE IF embs = <<>>
        THEN [ok |-> TRUE, sent |-> FALSE, request |-> req]
        ELSE IF DRY_RUN
        THEN [ok |-> TRUE, sent |-> FALSE, request |-> req]
        ELSE [ok |-> (outcome = "2xx"), sent |-> TRUE, request |-> req]

----------------------------------------------------------------------------
(* main: the delivery pipeline *)

\* The empty-identifier test dropped.
Survives_unidentified(e, seenset) ==
    /\ is_copilot_tagged(e)
    /\ ~(~FORCE_POST /\ entry_fingerprint(e) \in seenset)

\* Lines 492-498: entry e passes the filter
Survives(e, seenset) ==
    /\ is_copilot_tagged(e)
    /\ entry_fingerprint(e) # <<>>
    /\ ~(~FORCE_POST /\ entry_fingerprint(e) \in seenset)

\* Lines 490-499: the positions of the entries that pass, in feed order
RECURSIVE FilterFrom(_, _, _)
FilterFrom(ents, seenset, i) ==
    IF i > Len(ents) THEN <<>>
    ELSE (IF Survives(ents[i], seenset) THEN <<i>> ELSE <<>>)
         \o FilterFrom(ents, seenset, i + 1)

Filter(ents, seenset) == FilterFrom(ents, seenset, 1)

\* The keys list.sort computes, one call of entry_datetime_utc per element
\* in list order, and the clock after them. A read of the clock advances it.
RECURSIVE SortKeys(_, _, _)
SortKeys(ents, idxs, clk) ==
    IF idxs = <<>> THEN [keys |-> <<>>, clock |-> clk]
    ELSE LET d == entry_datetime_utc(ents[Head(idxs)], clk)
             rest == SortKeys(ents, Tail(idxs), IF d.read THEN clk + 1 ELSE clk)
         IN  [keys |-> <<d.ts>> \o rest.keys, clock |-> rest.clock]

\* list.sort is stable: x goes after every element whose key is <= its own
RECURSIVE InsertByKey(_, _)
InsertByKey(srt, x) ==
    IF srt = <<>> THEN <<x>>
    ELSE IF Head(srt).k <= x.k THEN <<Head(srt)>> \o InsertByKey(Tail(srt), x)
    ELSE <<x>> \o srt

RECURSIVE SortPairs(_, _)
SortPairs(pairs, acc) ==
    IF pairs = <<>> THEN acc
    ELSE SortPairs(Tail(pairs), InsertByKey(acc, Head(pairs)))

\* The sort dropped: feed order, newest first.
SortByKey_unsorted(idxs, ks) ==
    [i \in DOMAIN idxs |-> [e |-> idxs[i], k |-> ks[i]]]

\* Line 505: filtered.sort(key=...), as the sorted list of [e, k] pairs
SortByKey(idxs, ks) ==
    SortPairs([i \in DOMAIN idxs |-> [e |-> idxs[i], k |-> ks[i]]], <<>>)

\* Line 515: the embed r ahead of the embeds of the entries after it
Rendered(r, rest) ==
    [embeds |-> <<r.embed>> \o rest.embeds, clock |-> rest.clock,
     reqs |-> r.reqs + rest.reqs]

\* Line 515: embeds = [to_discord_embed(e) for e in to_send]
RECURSIVE Render(_, _, _)
Render(ents, idxs, clk) ==
    IF idxs = <<>> THEN [embeds |-> <<>>, clock |-> clk, reqs |-> 0]
    ELSE LET r == to_discord_embed(ents[Head(idxs)], clk)
         IN  Rendered(r, Render(ents, Tail(idxs), IF r.read THEN clk + 1 ELSE clk))

\* Line 511
explicit_thread == DISCORD_THREAD_ID \/ DISCORD_THREAD_NAME # <<>>

\* Line 514
mode == DISCORD_FORUM_MODE

\* Lines 517-570: the run posts the whole batch first
BatchFirst == explicit_thread \/ mode # "per-item"

\* Lines 543, 564: the batch is posted with a derived thread title
BatchTitled == ~explicit_thread /\ mode \notin {"per-item", "off"}

\* The fallback dropped.
BatchFallsBack_never == FALSE

\* Lines 562-571: a failed batch falls back to posting item by item
BatchFallsBack == ~explicit_thread /\ mode \notin {"per-item", "single", "off"}

\* Line 531 against line 576: the item posts carry a derived thread title
ItemsTitled == ~explicit_thread /\ mode = "per-item"

\* ids = [entry_fingerprint(e) for e in to_send]
IdsOf(ents, idxs) == [i \in DOMAIN idxs |-> entry_fingerprint(ents[idxs[i]])]

\* The check skipped.
UrlMissing_never == FALSE

\* Line 477: if not DISCORD_WEBHOOK_URL
UrlMissing == ~DISCORD_WEBHOOK_URL

\* Every run falls through to a success.
ItemsExit_always0(ok) == 0

\* Lines 539, 583: return 0 if all_ok else 2
ItemsExit(ok) == IF ok THEN 0 ELSE 2

\* Lines 477-479
MainMissingUrl ==
    /\ mpc = "start"
    /\ UrlMissing
    /\ rc' = 1
    /\ mpc' = "done"
    /\ UNCHANGED <<file, file0, storeVars, worldVars, helperVars, runVars, clock, entries, seen, filtered,
                   keys, to_send, embeds, idx, all_ok, posted_ids, posts,
                   feed_fetches, gen_requests, file_reads, file_writes>>

\* Lines 481-485
MainFetch ==
    /\ mpc = "start"
    /\ ~UrlMissing
    /\ feed_fetches' = feed_fetches + 1
    /\ entries' = feed
    /\ IF feed = <<>>
       THEN rc' = 0 /\ mpc' = "done"
       ELSE rc' = rc /\ mpc' = "fetched"
    /\ UNCHANGED <<file, file0, storeVars, worldVars, helperVars, runVars, clock, seen, filtered, keys,
                   to_send, embeds, idx, all_ok, posted_ids, posts, gen_requests,
                   file_reads, file_writes>>

\* Line 487, when load_state raises
MainLoadRaises ==
    /\ mpc = "fetched"
    /\ load_state(file).raised
    /\ file_reads' = file_reads + 1
    /\ mpc' = "raised"
    /\ UNCHANGED <<file, file0, storeVars, worldVars, helperVars, runVars, clock, rc, entries, seen,
                   filtered, keys, to_send, embeds, idx, all_ok, posted_ids, posts,
                   feed_fetches, gen_requests, file_writes>>

\* Lines 487-502, when nothing passes the filter
MainNothingNew ==
    /\ mpc = "fetched"
    /\ ~load_state(file).raised
    /\ Filter(entries, load_state(file).value) = <<>>
    /\ file_reads' = file_reads + 1
    /\ seen' = load_state(file).value
    /\ rc' = 0
    /\ mpc' = "done"
    /\ UNCHANGED <<file, file0, storeVars, worldVars, helperVars, runVars, clock, entries, filtered, keys,
                   to_send, embeds, idx, all_ok, posted_ids, posts, feed_fetches,
                   gen_requests, file_writes>>

\* Lines 487-515: load, filter, sort, cap and render
MainSelect ==
    /\ mpc = "fetched"
    /\ ~load_state(file).raised
    /\ \E sn \in {load_state(file).value} :
       \E filt \in {Filter(entries, sn)} :
       \E sk \in {SortKeys(entries, filt, clock)} :
       \E srt \in {SortByKey(filt, sk.keys)} :
       \E ord \in {[i \in DOMAIN srt |-> srt[i].e]} :
       \E cap \in {Prefix(ord, MAX_ITEMS_PER_RUN)} :
       \E rnd \in {Render(entries, cap, sk.clock)} :
           /\ filt # <<>>
           /\ seen' = sn
           /\ filtered' = ord
           /\ keys' = [i \in DOMAIN srt |-> srt[i].k]
           /\ to_send' = cap
           /\ embeds' = rnd.embeds
           /\ clock' = rnd.clock
           /\ gen_requests' = gen_requests + rnd.reqs
    /\ file_reads' = file_reads + 1
    /\ mpc' = IF BatchFirst THEN "batch" ELSE "items"
    /\ idx' = 1
    /\ all_ok' = TRUE
    /\ posted_ids' = <<>>
    /\ UNCHANGED <<file, file0, storeVars, worldVars, helperVars, runVars, rc, entries, posts,
                   feed_fetches, file_writes>>

\* save_state(ids, STATE_FILE) by main, unless FORCE_POST or `skip`
Persist(ids, skip) ==
    IF FORCE_POST \/ skip
    THEN /\ UNCHANGED <<file, file_writes, file_reads>>
         /\ mpc' = "done"
    ELSE LET sv == save_state(file, ids)
         IN  /\ file' = sv.file
             /\ file_reads' = file_reads + 1
             /\ file_writes' = IF sv.raised THEN file_writes ELSE file_writes + 1
             /\ mpc' = IF sv.raised THEN "raised" ELSE "done"

\* Lines 517-524, 541-570: the batched post of every mode but per-item
MainPostBatch(outcome) ==
    /\ mpc = "batch"
    /\ \E tn \in {IF BatchTitled THEN derive_thread_name(entries[to_send[1]])
                   ELSE [text |-> <<>>, reqs |-> 0]} :
       \E r \in {post_to_discord(embeds, IF BatchTitled THEN <<tn.text>> ELSE <<>>,
                                 outcome)} :
           /\ gen_requests' = gen_requests + tn.reqs
           /\ posts' = Append(posts, [items |-> to_send, call |-> r])
           /\ IF r.ok
              THEN /\ Persist(Range(IdsOf(entries, to_send)), FALSE)
                   /\ rc' = IF mpc' = "done" THEN 0 ELSE rc
              ELSE /\ IF BatchFallsBack
                      THEN mpc' = "items" /\ rc' = rc
                      ELSE mpc' = "done" /\ rc' = 2
                   /\ UNCHANGED <<file, file_reads, file_writes>>
    /\ UNCHANGED <<file0, storeVars, worldVars, helperVars, runVars, clock, entries, seen, filtered, keys,
                   to_send, embeds, idx, all_ok, posted_ids, feed_fetches>>

\* Lines 529-539, 574-583: one turn of a per-item loop and, after the last
\* turn, the save and the return
MainPostItem(outcome) ==
    /\ mpc = "items"
    /\ \E entry \in {entries[to_send[idx]]} :
       \E em \in {to_discord_embed(entry, clock)} :
       \E tn \in {IF ItemsTitled THEN derive_thread_name(entry)
                   ELSE [text |-> <<>>, reqs |-> 0]} :
       \E r \in {post_to_discord(<<em.embed>>,
                                 IF ItemsTitled THEN <<tn.text>> ELSE <<>>, outcome)} :
       \E ids \in {IF r.ok THEN Append(posted_ids, entry_fingerprint(entry))
                    ELSE posted_ids} :
       \E ok \in {all_ok /\ r.ok} :
           /\ clock' = IF em.read THEN clock + 1 ELSE clock
           /\ gen_requests' = gen_requests + em.reqs + tn.reqs
           /\ posts' = Append(posts, [items |-> <<to_send[idx]>>, call |-> r])
           /\ posted_ids' = ids
           /\ all_ok' = ok
           /\ IF idx < Len(to_send)
              THEN /\ idx' = idx + 1
                   /\ UNCHANGED <<file, file_reads, file_writes, mpc, rc>>
              ELSE /\ idx' = idx
                   /\ Persist(Range(ids), ids = <<>>)
                   /\ rc' = IF mpc' # "done" THEN rc ELSE ItemsExit(ok)
    /\ UNCHANGED <<file0, storeVars, worldVars, helperVars, runVars, entries, seen, filtered, keys,
                   to_send, embeds, feed_fetches>>

----------------------------------------------------------------------------
(* The inputs of a run *)

Copilot == <<"C", "o", "p", "i", "l", "o", "t">>
Update == <<"U", "p", "d", "a", "t", "e">>
GitHubCopilot == <<"G", "i", "t", "H", "u", "b", " ">> \o Copilot

\* Tagged by a tag's term; a naive "published".
EntryA ==
    [id |-> <<"a">>, title |-> Update, link |-> <<"u", "a">>,
     tags |-> <<[term |-> <<"n", "e", "w">>], [term |-> Copilot]>>,
     summary |-> <<"<", "p", ">", "n", "e", "w", ".", " ", "x", "<", "/", "p", ">">>,
     published |-> PubDate(3, FALSE, 0)]

\* Tagged by its category; an aware "published", one hour east of UTC.
EntryB ==
    [id |-> <<"b">>, title |-> Update, category |-> GitHubCopilot,
     summary |-> <<"n", "e", "w">>,
     published |-> PubDate(2, TRUE, 1)]

\* Tagged by its title only; no date at all, so dated now.
EntryC ==
    [guid |-> <<"c">>, title |-> Copilot]

\* Not about Copilot.
EntryD ==
    [id |-> <<"d">>, title |-> Update, tags |-> <<[term |-> <<"n", "e", "w">>]>>,
     published |-> PubDate(2, FALSE, 0)]

\* No id: the link is the identifier, the same as EntryA's id. A title that
\* cleans to nothing; a "published" dateutil cannot parse, and the
\* structured fallback.
EntryE ==
    [link |-> <<"a">>, title |-> <<"?", "!">>, tags |-> <<[label |-> copilot]>>,
     summary |-> <<"x">>,
     published |-> PubGarbage, published_parsed |-> ParsedTime(2)]

\* Tagged, and nothing to identify it by.
EntryF ==
    [title |-> <<>>, tags |-> <<[term |-> Copilot, label |-> <<>>]>>,
     published |-> PubDate(1, FALSE, 0)]

EntryPool == {EntryA, EntryB, EntryC, EntryD, EntryE, EntryF}

Digits == <<"1", "2", "3", "4", "5", "6", "7", "8">>

\* The k-th entry of a long feed, published at `t`.
LongEntry(k, t) ==
    [id |-> <<"n", Digits[k]>>, title |-> Copilot, published |-> PubDate(t, FALSE, 0)]

MaxShortFeed == 2
MaxLongFeed == 6

\* Every feed of up to MaxShortFeed entries of the pool.
ShortFeeds ==
    UNION {[1..n -> EntryPool] : n \in 0..MaxShortFeed}

\* Feeds of MAX_ITEMS_PER_RUN to MaxLongFeed tagged entries, newest first, as
\* the changelog serves them.
LongFeeds ==
    {[i \in 1..n |-> LongEntry(i, n + 1 - i)] : n \in MAX_ITEMS_PER_RUN..MaxLongFeed}

\* Three entries, two tagged, one of those seen before.
ScenarioFeed == <<EntryA, EntryD, EntryB>>

\* Two entries with one identifier.
TwinFeed == <<EntryA, EntryE>>

\* An undated entry, one with no identifier, an aware date and a structured one.
MixedFeed == <<EntryC, EntryF, EntryB, EntryE>>

\* The feeds every configuration is run on.
CoreFeeds == LongFeeds \cup {ScenarioFeed, TwinFeed, MixedFeed}

News == <<"n", "e", "w", "s">>

Envs ==
    [webhook_url : BOOLEAN,
     thread_id : BOOLEAN,
     thread_name : {<<>>, News},
     forum_mode : {"unset", "per-item", "auto", "single", "off", "other"},
     force_post : BOOLEAN,
     dry_run : BOOLEAN,
     github_token : BOOLEAN,
     openai_key : BOOLEAN]

\* A reply of a generation service: ~ok is any non-200 status, malformed
\* body or exception.
Down == [ok |-> FALSE, summary |-> <<>>, title |-> <<>>]
Up == [ok |-> TRUE,
       summary |-> <<"-", " ", "a", "\n", "\n", "-", " ", "b", "\n">>,
       title |-> <<"\"", "N", "e", "w", " ", " ", "x", ".", "\"">>]

\* The credentials set, and what the services answer in the run.
GenWorlds ==
    {[github_token |-> FALSE, openai_key |-> FALSE, github |-> Down, openai |-> Down],
     [github_token |-> TRUE, openai_key |-> FALSE, github |-> Up, openai |-> Down],
     [github_token |-> TRUE, openai_key |-> TRUE, github |-> Down, openai |-> Up],
     [github_token |-> TRUE, openai_key |-> TRUE, github |-> Down, openai |-> Down]}

\* The state files main starts from.
MainFiles ==
    {AbsentFile, UnreadableFile, TextFile(9), OtherJsonFile}
    \cup {ArrayFile(sorted(S)) : S \in {{<<"a">>}, {<<"a">>, <<"c">>}}}

\* The state files every configuration is run on.
CoreFiles == {AbsentFile, ArrayFile(<<<<"a">>>>)}

\* The configurations every feed and state file is run on: each behaviour of
\* the posting mode, no thread target, no flag, no credentials.
CoreEnv(e) ==
    /\ e.webhook_url /\ ~e.thread_id /\ e.thread_name = <<>>
    /\ e.forum_mode \in {"unset", "auto", "single", "off"}
    /\ ~e.force_post /\ ~e.dry_run
    /\ ~e.github_token /\ ~e.openai_key

ClockStarts == {2, 9}

\* No run of main: the store harnesses leave these alone.
WorldIdle ==
    /\ env = [webhook_url |-> FALSE, thread_id |-> FALSE, thread_name |-> <<>>,
              forum_mode |-> "unset", force_post |-> FALSE, dry_run |-> FALSE,
              github_token |-> FALSE, openai_key |-> FALSE]
    /\ feed = <<>>
    /\ llm = [github |-> Down, openai |-> Down]

MainAt(where) ==
    /\ mpc = where
    /\ rc = -1
    /\ entries = <<>>
    /\ seen = {}
    /\ filtered = <<>>
    /\ keys = <<>>
    /\ to_send = <<>>
    /\ embeds = <<>>
    /\ idx = 1
    /\ all_ok = TRUE
    /\ posted_ids = <<>>
    /\ posts = <<>>
    /\ feed_fetches = 0
    /\ gen_requests = 0
    /\ file_reads = 0
    /\ file_writes = 0

MainIdle == clock = 0 /\ MainAt("idle")

\* No helper called on its own.
NoReturn == [text |-> <<>>, flag |-> FALSE, reqs |-> 0]
HelperIdle ==
    /\ input = [entry |-> <<>>, text |-> <<>>, max_len |-> 0]
    /\ called = "none"
    /\ returned = NoReturn

\* The first run of main, or none.
FirstRun == run = 1 /\ past = <<>>

----------------------------------------------------------------------------
(* Processes calling the store *)

Procs == {1, 2}

MaxOps == 3

InProgress(p) == pc[p] \in {"merged", "opened"}

\* A call of load_state(STATE_FILE) by a client of the store.
CallLoad(p) ==
    /\ pc[p] = "idle" /\ budget[p] > 0
    /\ LET r == load_state(file)
       IN  /\ pc' = [pc EXCEPT ![p] = IF r.raised THEN "raised" ELSE "idle"]
           /\ calls' = Append(calls, [op |-> "load", proc |-> p, ids |-> r.value,
                                      raised |-> r.raised, pre |-> file])
    /\ budget' = [budget EXCEPT ![p] = @ - 1]
    /\ UNCHANGED <<file, file0, arg, existing, pre, overlap, worldVars, helperVars, runVars, mainVars>>

\* save_state lines 74-75: existing = load_state(path), and the merge
SaveBegin(p, ids) ==
    /\ pc[p] = "idle" /\ budget[p] > 0
    /\ LET r == load_state(file)
       IN  /\ pc' = [pc EXCEPT ![p] = IF r.raised THEN "raised" ELSE "merged"]
           /\ existing' = [existing EXCEPT ![p] = r.value]
           /\ calls' = IF r.raised
                       THEN Append(calls, [op |-> "save", proc |-> p, ids |-> ids,
                                           raised |-> TRUE, pre |-> file])
                       ELSE calls
    /\ arg' = [arg EXCEPT ![p] = ids]
    /\ pre' = [pre EXCEPT ![p] = file]
    /\ budget' = [budget EXCEPT ![p] = @ - 1]
    /\ overlap' = (overlap \/ \E q \in Procs \ {p} : InProgress(q))
    /\ UNCHANGED <<file, file0, worldVars, helperVars, runVars, mainVars>>

\* save_state line 76: open(path, "w")
SaveOpen(p) ==
    /\ pc[p] = "merged"
    /\ file' = Truncated(file)
    /\ pc' = [pc EXCEPT ![p] = "opened"]
    /\ UNCHANGED <<file0, arg, existing, pre, budget, calls, overlap, worldVars, helperVars, runVars, mainVars>>

\* save_state line 77 and the end of the with block: the dump reaches the file
SaveDump(p) ==
    /\ pc[p] = "opened"
    /\ file' = Dumped(file, merged(existing[p], arg[p]))
    /\ pc' = [pc EXCEPT ![p] = "idle"]
    /\ calls' = Append(calls, [op |-> "save", proc |-> p, ids |-> arg[p],
                               raised |-> FALSE, pre |-> pre[p]])
    /\ UNCHANGED <<file0, arg, existing, pre, budget, overlap, worldVars, helperVars, runVars, mainVars>>

InitProcs(b) ==
    /\ file \in FileStates
    /\ file0 = file
    /\ pc = [p \in Procs |-> "idle"]
    /\ arg = [p \in Procs |-> {}]
    /\ existing = [p \in Procs |-> {}]
    /\ pre = [p \in Procs |-> file]
    /\ budget = b
    /\ calls = <<>>
    /\ overlap = FALSE
    /\ WorldIdle
    /\ MainIdle
    /\ HelperIdle
    /\ FirstRun

\* One client making up to MaxOps calls of load_state and save_state.
InitStore == InitProcs([p \in Procs |-> IF p = 1 THEN MaxOps ELSE 0])

NextStore ==
    \/ CallLoad(1)
    \/ \E ids \in SUBSET IdPool : SaveBegin(1, ids)
    \/ SaveOpen(1)
    \/ SaveDump(1)

SpecStore == InitStore /\ [][NextStore]_vars

\* Two processes, each calling save_state once on the same path.
InitConc == InitProcs([p \in Procs |-> 1])

NextConc ==
    \E p \in Procs :
        \/ \E ids \in SUBSET IdPool : SaveBegin(p, ids)
        \/ SaveOpen(p)
        \/ SaveDump(p)

SpecConc == InitConc /\ [][NextConc]_vars

----------------------------------------------------------------------------
(* One run of main *)

\* Every configuration on the core feeds and state files, and every short
\* feed and state file under the core configurations.
Init ==
    /\ file \in MainFiles \cup CoreFiles
    /\ file0 = file
    /\ pc = [p \in Procs |-> "idle"]
    /\ arg = [p \in Procs |-> {}]
    /\ existing = [p \in Procs |-> {}]
    /\ pre = [p \in Procs |-> file]
    /\ budget = [p \in Procs |-> 0]
    /\ calls = <<>>
    /\ overlap = FALSE
    /\ env \in Envs
    /\ \E g \in GenWorlds :
        /\ env.github_token = g.github_token
        /\ env.openai_key = g.openai_key
        /\ llm = [github |-> g.github, openai |-> g.openai]
    /\ \/ feed \in CoreFeeds /\ file \in CoreFiles
       \/ feed \in ShortFeeds /\ file \in MainFiles /\ CoreEnv(env)
    /\ clock \in ClockStarts
    /\ MainAt("start")
    /\ HelperIdle
    /\ FirstRun

Next ==
    \/ MainMissingUrl
    \/ MainFetch
    \/ MainLoadRaises
    \/ MainNothingNew
    \/ MainSelect
    \/ \E outcome \in HttpOutcomes : MainPostBatch(outcome)
    \/ \E outcome \in HttpOutcomes : MainPostItem(outcome)

Spec == Init /\ [][Next]_vars

----------------------------------------------------------------------------
(* Claims about the seen-state store *)

\* The identifiers a state file holds
SeenIn(f) == IF f.kind = "array" THEN Range(f.data) ELSE {}

WellFormed(f) == f.kind = "array"

\* Both processes have made their one save_state call and returned from it.
BothSaved ==
    /\ \A p \in Procs : pc[p] = "idle" /\ budget[p] = 0
    /\ Len(calls) = 2

SavedIds == UNION {calls[i].ids : i \in DOMAIN calls}

\* C3, as claimed: for every interleaving of the reads and writes of two
\* processes that each call save_state, after both saves complete the file
\* holds every identifier it held before and every identifier either wrote.
C3_MonotonicUnderConcurrency ==
    BothSaved => (SeenIn(file0) \cup SavedIds) \subseteq SeenIn(file)

\* C3, amended: when the two save_state calls do not overlap (neither begins
\* between the other's re-load and the end of its write), after both saves
\* complete the file is a well-formed array holding exactly every identifier
\* it held before and every identifier either process wrote.
C3_MonotonicWhenSerial ==
    (BothSaved /\ ~overlap) =>
        /\ WellFormed(file)
        /\ SeenIn(file) = SeenIn(file0) \cup SavedIds

\* C3 witness: two non-overlapping saves of different, non-empty id sets on a
\* file that held a third identifier.
C3_Witness ==
    /\ BothSaved /\ ~overlap
    /\ SeenIn(file0) # {}
    /\ calls[1].ids # {} /\ calls[2].ids # {}
    /\ calls[1].ids \cap calls[2].ids = {}
    /\ SeenIn(file0) \cap SavedIds = {}
    /\ Cardinality(SeenIn(file)) = 3

\* C4: on a well-formed state file holding S, save_state(N) followed by
\* load_state returns exactly S \cup N; and over one client's calls a later
\* load_state never returns less than an earlier one.
C4_RoundTrip ==
    /\ \A i \in 1..(Len(calls) - 1) :
         (/\ calls[i].op = "save" /\ ~calls[i].raised
          /\ WellFormed(calls[i].pre)
          /\ calls[i + 1].op = "load")
         => /\ ~calls[i + 1].raised
            /\ calls[i + 1].ids = SeenIn(calls[i].pre) \cup calls[i].ids
    /\ \A i, j \in DOMAIN calls :
         (i < j /\ calls[i].op = "load" /\ calls[j].op = "load")
         => calls[i].ids \subseteq calls[j].ids

\* C4 witness: {a, b} saved, then {c}, then a load that returns all three.
C4_Witness ==
    /\ Len(calls) = 3
    /\ WellFormed(file0) /\ SeenIn(file0) = {<<"a">>}
    /\ calls[1].op = "save" /\ calls[1].ids = {<<"b", "b">>}
    /\ calls[2].op = "save" /\ calls[2].ids = {<<"c">>}
    /\ calls[3].op = "load" /\ calls[3].ids = IdPool

\* C10, as claimed: whatever the state file is (absent, unreadable, not JSON,
\* JSON that is no array), load_state returns the empty set without raising,
\* and save_state(N) completes and leaves a well-formed array holding
\* exactly N.
C10_CorruptionNeverFatal ==
    \A i \in DOMAIN calls :
        ~WellFormed(calls[i].pre) =>
            /\ ~calls[i].raised
            /\ calls[i].op = "load" => calls[i].ids = {}
            /\ (calls[i].op = "save" /\ i = Len(calls) /\ pc[1] \in {"idle", "merged"})
               => file = ArrayFile(sorted(calls[i].ids))

\* C10, what the code does keep: a state file that is absent, not JSON or
\* no array loads as the empty set and is replaced by exactly N.
C10_ExceptUnreadable ==
    \A i \in DOMAIN calls :
        (~WellFormed(calls[i].pre) /\ calls[i].pre.kind # "unreadable") =>
            /\ ~calls[i].raised
            /\ calls[i].op = "load" => calls[i].ids = {}
            /\ (calls[i].op = "save" /\ i = Len(calls) /\ pc[1] \in {"idle", "merged"})
               => file = ArrayFile(sorted(calls[i].ids))

----------------------------------------------------------------------------
(* Claims about a run of main *)

\* main has returned
Returned == mpc = "done"

\* The identifiers the run has added to the state file
Added == SeenIn(file) \ SeenIn(file0)

\* The i-th call of post_to_discord carries the embed of the entry at p
Carries(i, p) == \E j \in DOMAIN posts[i].items : posts[i].items[j] = p

\* The i-th call sent an HTTP POST that returned a 2xx status
Confirmed2xx(i) == posts[i].call.sent /\ posts[i].call.ok

\* The i-th call sent an HTTP POST that failed
Failed(i) == posts[i].call.sent /\ ~posts[i].call.ok

Fingerprint(p) == entry_fingerprint(entries[p])

\* The entries some call carried, and those a successful call carried
Posted == {p \in DOMAIN entries : \E i \in DOMAIN posts : Carries(i, p)}
Delivered ==
    {p \in DOMAIN entries : \E i \in DOMAIN posts : Carries(i, p) /\ posts[i].call.ok}

\* The entry at p is tagged, has an identifier and, unless force-repost is
\* set, was not in the Seen Set the run loaded
Qualifies(p) ==
    /\ is_copilot_tagged(entries[p])
    /\ Fingerprint(p) # <<>>
    /\ (FORCE_POST \/ Fingerprint(p) \notin seen)

Qualifying == {p \in DOMAIN entries : Qualifies(p)}

\* The effective timestamp of a survivor: its sort key
KeyOf(p) == keys[CHOOSE i \in DOMAIN filtered : filtered[i] = p]

\* C1, as claimed: in every posting mode and under every setting of the
\* flags, an identifier is in the state file that was not there before the
\* run only if an HTTP POST carrying that entry's embed returned 2xx.
C1_SeenOnlyAfter2xx ==
    \A id \in Added :
        \E i \in DOMAIN posts :
            /\ Confirmed2xx(i)
            /\ \E j \in DOMAIN posts[i].items : Fingerprint(posts[i].items[j]) = id

\* C1, what the code does keep: with the dry-run flag off, an identifier is
\* added only after an HTTP POST carrying that entry's embed returned 2xx.
C1_ExceptDryRun == ~DRY_RUN => C1_SeenOnlyAfter2xx

\* Every post that carried the entry at p failed
EveryPostFailed(p) ==
    /\ \E i \in DOMAIN posts : Carries(i, p)
    /\ \A i \in DOMAIN posts : Carries(i, p) => Failed(i)

\* C2, as claimed: when every post attempt carrying an entry failed, the run
\* has not added the entry's identifier to the state file, and the next run
\* over the same feed selects the entry again.
C2_FailedPostNeverSeen ==
    Returned =>
        \A k \in DOMAIN to_send :
            EveryPostFailed(to_send[k]) =>
                /\ Fingerprint(to_send[k]) \notin Added
                /\ to_send[k] \in Range(Filter(entries, load_state(file).value))

\* C2, what the code does keep: the same, for an entry that shares its
\* identifier with no other entry of the batch.
C2_ExceptTwins ==
    Returned =>
        \A k \in DOMAIN to_send :
            (/\ EveryPostFailed(to_send[k])
             /\ \A m \in DOMAIN to_send :
                  Fingerprint(to_send[m]) = Fingerprint(to_send[k]) => m = k) =>
                /\ Fingerprint(to_send[k]) \notin Added
                /\ to_send[k] \in Range(Filter(entries, load_state(file).value))

AllPostsSucceeded == \A i \in DOMAIN posts : Confirmed2xx(i)

\* C6, as claimed: only qualifying entries are posted; and when at most 5
\* entries qualify and all posts succeed, exactly those are delivered and
\* exactly their identifiers are added to the state file.
C6_SelectionAndPersistence ==
    /\ Posted \subseteq Qualifying
    /\ (Returned /\ Cardinality(Qualifying) <= 5 /\ AllPostsSucceeded) =>
         /\ Delivered = Qualifying
         /\ Added = {Fingerprint(p) : p \in Qualifying}

\* C6, amended: only qualifying entries are posted; and when at most 5
\* entries qualify and all posts succeed, exactly those are delivered and,
\* with force-repost off, exactly their identifiers are added to the state
\* file; with force-repost on the state file is left as it was.
C6_SelectionAndPersistenceUnlessForced ==
    /\ Posted \subseteq Qualifying
    /\ (Returned /\ Cardinality(Qualifying) <= 5 /\ AllPostsSucceeded) =>
         /\ Delivered = Qualifying
         /\ ~FORCE_POST => Added = {Fingerprint(p) : p \in Qualifying}
         /\ FORCE_POST => file = file0

\* C6 witness: three entries, two tagged, one of those seen: exactly one is
\* delivered and persisted.
C6_Witness ==
    /\ Returned /\ ~FORCE_POST /\ ~DRY_RUN
    /\ feed = ScenarioFeed
    /\ file0 = ArrayFile(<<<<"a">>>>)
    /\ AllPostsSucceeded
    /\ Delivered = {3}
    /\ Added = {<<"b">>}

\* C7: no run posts more than MAX_ITEMS_PER_RUN distinct entries; a payload
\* lists its entries, and the item posts follow each other, in ascending
\* order of effective timestamp; and the entries a run has posted are the
\* min(5, n) of the n survivors with the earliest effective timestamps.
C7_OrderingAndCap ==
    /\ Cardinality(Posted) <= MAX_ITEMS_PER_RUN
    /\ \A i \in DOMAIN posts : \A j, m \in DOMAIN posts[i].items :
         j < m => KeyOf(posts[i].items[j]) <= KeyOf(posts[i].items[m])
    /\ \A i, m \in DOMAIN posts :
         (i < m /\ Len(posts[i].items) = 1 /\ Len(posts[m].items) = 1)
         => KeyOf(posts[i].items[1]) <= KeyOf(posts[m].items[1])
    /\ Returned =>
         /\ Cardinality(Posted) = Min(5, Cardinality(Qualifying))
         /\ \A p \in Posted : \A q \in Qualifying \ Posted : KeyOf(p) <= KeyOf(q)

\* C7 witness: six survivors, served newest first, five of them posted one
\* by one.
C7_Witness ==
    /\ Returned
    /\ Cardinality(Qualifying) = 6
    /\ Len(posts) = 5
    /\ posts[1].items = <<6>>
    /\ Qualifying \ Posted = {1}

\* The thread title post_to_discord puts in the payload for a derived title
PayloadTitle(p) ==
    LET t == derive_thread_name(entries[p]).text
    IN  IF t = <<>> THEN <<>> ELSE <<t>>

\* The first call is one batched post of all capped embeds, titled from the
\* first survivor, and item posts follow only if it failed.
BatchThenFallback ==
    /\ posts[1].items = to_send
    /\ posts[1].call.request.embeds = embeds
    /\ posts[1].call.request.thread_name = PayloadTitle(to_send[1])
    /\ \A i \in 2..Len(posts) :
         /\ ~posts[1].call.ok
         /\ posts[i].items = <<to_send[i - 1]>>

C9_MissingUrlTouchesNothing ==
    ~env.webhook_url =>
        /\ mpc \in {"start", "done"}
        /\ Returned => rc = 1
        /\ feed_fetches = 0 /\ gen_requests = 0 /\ posts = <<>>
        /\ file_reads = 0 /\ file_writes = 0 /\ file = file0

\* C9 witness: a run without the URL has returned, though the feed has
\* entries to post and credentials for a generation service are set.
C9_Witness ==
    /\ ~env.webhook_url /\ Returned /\ rc = 1
    /\ feed = ScenarioFeed
    /\ env.github_token

----------------------------------------------------------------------------
(* The helpers, each called on its own *)

NoEntry == <<>>

\* Entries for entry_fingerprint: each of the five fields absent, empty or
\* holding a value of its own.
FingerprintFields == {"id", "guid", "entry_id", "link", "title"}
FieldValue(k) ==
    CASE k = "id" -> <<"1">>
      [] k = "guid" -> <<"2">>
      [] k = "entry_id" -> <<"3">>
      [] k = "link" -> <<"4">>
      [] OTHER -> <<"5">>
FingerprintEntries ==
    UNION {{[k \in ks |-> IF k \in full THEN FieldValue(k) ELSE <<>>] :
                full \in SUBSET ks} : ks \in SUBSET FingerprintFields}

\* Texts of up to n characters of an alphabet
RECURSIVE TextsUpTo(_, _)
TextsUpTo(alphabet, n) ==
    IF n = 0 THEN {<<>>}
    ELSE LET shorter == TextsUpTo(alphabet, n - 1)
         IN  shorter \cup {Append(t, c) : t \in shorter, c \in alphabet}

MaxSummaryText == 3
MaxTitleText == 4
MaxCap == 3

SummaryAlphabet == {"a", " ", ".", "<", ">"}
TitleAlphabet == {"a", " ", "\"", "."}

SummaryTexts == TextsUpTo(SummaryAlphabet, MaxSummaryText)
TitleTexts == TextsUpTo(TitleAlphabet, MaxTitleText)

\* Entries for the summarizer: a summary, and no title, a title, a title
\* that is nothing but punctuation, or a title with quotes.
SummaryEntries ==
    {[summary |-> s] : s \in SummaryTexts}
    \cup {[summary |-> s, title |-> t] :
            s \in SummaryTexts,
            t \in {<<>>, Update, <<"?", "!">>, <<"\"", "a", "\"">>, <<"a", "\"", ".">>}}

\* Entries for is_copilot_tagged: the keyword in several letter cases, a near
\* miss, in a tag's term or label, the category or the title.
TagTexts ==
    {<<>>, <<"n", "e", "w">>, Copilot, <<"C", "O", "P", "I", "L", "O", "T">>,
     <<"c", "o", "p", "i", "l", "o">>}
Tags ==
    UNION {[ks -> TagTexts] : ks \in SUBSET {"term", "label"}}
TagLists ==
    {<<>>} \cup {<<t>> : t \in Tags} \cup {<<[term |-> <<"n", "e", "w">>], t>> : t \in Tags}
FieldTexts == {<<>>, GitHubCopilot, <<"c", "o", "p", "i", "l", "o">>}
TagEntries ==
    UNION {{e \in [ks -> TagLists \cup FieldTexts] :
                /\ "tags" \in ks => e["tags"] \in TagLists
                /\ "category" \in ks => e["category"] \in FieldTexts
                /\ "title" \in ks => e["title"] \in FieldTexts} :
           ks \in SUBSET {"tags", "category", "title"}}

\* The credentials of a helper call, and what the services answer
HelperWorld(g) ==
    /\ env = [webhook_url |-> FALSE, thread_id |-> FALSE, thread_name |-> <<>>,
              forum_mode |-> "unset", force_post |-> FALSE, dry_run |-> FALSE,
              github_token |-> g.github_token, openai_key |-> g.openai_key]
    /\ feed = <<>>
    /\ llm = [github |-> g.github, openai |-> g.openai]

NoCredentials == ~GITHUB_MODELS_TOKEN /\ ~OPENAI_API_KEY

\* basic_summary(entry, max_len)
CallBasicSummary ==
    /\ called = "none"
    /\ called' = "basic_summary"
    /\ returned' = [NoReturn EXCEPT !.text = basic_summary(input.entry, input.max_len)]
    /\ UNCHANGED <<file, file0, storeVars, worldVars, mainVars, runVars, input>>

\* summarize_entry(entry)
CallSummarizeEntry ==
    /\ called = "none"
    /\ called' = "summarize_entry"
    /\ LET r == summarize_entry(input.entry)
       IN  returned' = [NoReturn EXCEPT !.text = r.text, !.reqs = r.reqs]
    /\ UNCHANGED <<file, file0, storeVars, worldVars, mainVars, runVars, input>>

\* derive_thread_name(entry)
CallDeriveThreadName ==
    /\ called = "none"
    /\ called' = "derive_thread_name"
    /\ LET r == derive_thread_name(input.entry)
       IN  returned' = [NoReturn EXCEPT !.text = r.text, !.reqs = r.reqs]
    /\ UNCHANGED <<file, file0, storeVars, worldVars, mainVars, runVars, input>>

\* entry_fingerprint(entry)
CallEntryFingerprint ==
    /\ called = "none"
    /\ called' = "entry_fingerprint"
    /\ returned' = [NoReturn EXCEPT !.text = entry_fingerprint(input.entry)]
    /\ UNCHANGED <<file, file0, storeVars, worldVars, mainVars, runVars, input>>

\* is_copilot_tagged(entry)
CallIsCopilotTagged ==
    /\ called = "none"
    /\ called' = "is_copilot_tagged"
    /\ returned' = [NoReturn EXCEPT !.flag = is_copilot_tagged(input.entry)]
    /\ UNCHANGED <<file, file0, storeVars, worldVars, mainVars, runVars, input>>

\* _clean_title(raw, max_len)
CallCleanTitle ==
    /\ called = "none"
    /\ called' = "_clean_title"
    /\ returned' = [NoReturn EXCEPT !.text = _clean_title(input.text, input.max_len)]
    /\ UNCHANGED <<file, file0, storeVars, worldVars, mainVars, runVars, input>>

\* The arguments: an entry for the entry helpers, with a cap for
\* basic_summary; a raw title and a cap for _clean_title.
InitHelpers ==
    /\ file = AbsentFile
    /\ file0 = file
    /\ pc = [p \in Procs |-> "idle"]
    /\ arg = [p \in Procs |-> {}]
    /\ existing = [p \in Procs |-> {}]
    /\ pre = [p \in Procs |-> file]
    /\ budget = [p \in Procs |-> 0]
    /\ calls = <<>>
    /\ overlap = FALSE
    /\ MainIdle
    /\ FirstRun
    /\ called = "none"
    /\ returned = NoReturn
    /\ \/ /\ \E g \in GenWorlds : HelperWorld(g) /\ NoCredentials
          /\ input \in [entry : FingerprintEntries \cup TagEntries,
                        text : {<<>>}, max_len : {SummaryMax}]
       \/ /\ \E g \in GenWorlds : HelperWorld(g) /\ NoCredentials
          /\ input \in [entry : SummaryEntries, text : {<<>>}, max_len : 0..MaxCap]
       \/ /\ \E g \in GenWorlds : HelperWorld(g)
          /\ input \in [entry : SummaryEntries, text : {<<>>}, max_len : {SummaryMax}]
       \/ /\ \E g \in GenWorlds : HelperWorld(g) /\ NoCredentials
          /\ input \in [entry : {NoEntry}, text : TitleTexts,
                        max_len : 0..MaxCap \cup {TitleMax}]

NextHelpers ==
    \/ CallBasicSummary
    \/ CallSummarizeEntry
    \/ CallDeriveThreadName
    \/ CallEntryFingerprint
    \/ CallIsCopilotTagged
    \/ CallCleanTitle

SpecHelpers == InitHelpers /\ [][NextHelpers]_vars

----------------------------------------------------------------------------
(* Claims about the helpers *)

QuoteOrSpace == {"'", "\"", " "}

\* A title with at most max_len characters, no quote character or space at
\* either end, and no punctuation or separator at its end
WellFormedTitle(t, max_len) ==
    /\ Len(t) <= max_len
    /\ t # <<>> => /\ t[1] \notin QuoteOrSpace
                   /\ t[Len(t)] \notin QuoteOrSpace
                   /\ t[Len(t)] \notin TrailingPunct

\* The entry of the call has a raw summary that is not empty
HasRawSummary == Has(input.entry, "summary") /\ input.entry["summary"] # <<>>

\* The text of the entry's summary, markup and surrounding space removed
SummaryText == Strip(strip_html(GetOrEmpty(input.entry, "summary")), Whitespace)

\* The entry's title, surrounding space removed
TitleText == Strip(GetOrEmpty(input.entry, "title"), Whitespace)

\* C11, as claimed: with no credentials for either generation service and
\* an entry whose raw summary is not empty, summarize_entry returns a
\* non-empty description equal to basic_summary(entry), derive_thread_name
\* returns a non-empty, well-formed title (the cleaned entry title if the
\* entry has one, else a phrase of the summary), and neither makes a
\* generation-service request.
C11_FallbacksNeverEmpty ==
    (NoCredentials /\ HasRawSummary) =>
        /\ called = "summarize_entry" =>
             /\ returned.text # <<>>
             /\ returned.text = basic_summary(input.entry, SummaryMax)
             /\ returned.reqs = 0
        /\ called = "derive_thread_name" =>
             /\ returned.text # <<>>
             /\ WellFormedTitle(returned.text, TitleMax)
             /\ IF TitleText # <<>>
                THEN returned.text = _clean_title(TitleText, TitleMax)
                ELSE Contains(SummaryText, returned.text)
             /\ returned.reqs = 0

\* Some character of t is neither a quote, a space nor punctuation
HasWord(t) == \E i \in DOMAIN t : t[i] \notin QuoteOrSpace \cup TrailingPunct

\* C11, what the code does keep: with no credentials no request is made and
\* the description is basic_summary(entry); the description is non-empty
\* when the summary holds text outside its markup, and the title is
\* non-empty when the entry's title, or with no title the first sentence of
\* the summary, holds a character that is not a quote, a space or
\* punctuation.
C11_ExceptPunctuationOnly ==
    (NoCredentials /\ HasRawSummary) =>
        /\ called = "summarize_entry" =>
             /\ returned.text = basic_summary(input.entry, SummaryMax)
             /\ SummaryText # <<>> => returned.text # <<>>
             /\ returned.reqs = 0
        /\ called = "derive_thread_name" =>
             /\ (IF TitleText # <<>> THEN HasWord(TitleText)
                 ELSE HasWord(FirstSentence(SummaryText)) \/ SummaryText = <<>>)
                => returned.text # <<>>
             /\ returned.reqs = 0

\* t ends with the ellipsis marker
EndsWithEllipsis(t) ==
    Len(t) >= Len(Ellipsis) /\ SubSeq(t, Len(t) - Len(Ellipsis) + 1, Len(t)) = Ellipsis

\* What the claim says of a call basic_summary(entry, max_len)
CapRespected ==
    /\ Len(returned.text) <= input.max_len
    /\ Len(SummaryText) > input.max_len => EndsWithEllipsis(returned.text)
    /\ Len(SummaryText) <= input.max_len => returned.text = SummaryText

\* C12, as claimed: for every entry and every cap max_len >= 0, the length
\* of basic_summary(entry, max_len) never exceeds max_len; a stripped text
\* longer than max_len gives a result that ends with the ellipsis marker,
\* and one that is not longer is returned verbatim.
C12_NeverExceedsCap ==
    called = "basic_summary" => CapRespected

\* C12, amended: the same for every cap max_len >= 1. With max_len = 0 and a
\* stripped text that is not empty the result ends with the ellipsis marker,
\* so it is longer than the cap, and no longer than the stripped text.
C12_NeverExceedsPositiveCap ==
    called = "basic_summary" =>
        /\ input.max_len >= 1 => CapRespected
        /\ (input.max_len = 0 /\ SummaryText # <<>>) =>
             /\ EndsWithEllipsis(returned.text)
             /\ Len(returned.text) <= Len(SummaryText)

\* C12 witness: a text of three characters cut to a cap of two.
C12_Witness ==
    /\ called = "basic_summary"
    /\ input.max_len = 2
    /\ Len(SummaryText) = 3
    /\ returned.text = <<"a">> \o Ellipsis

\* The five fields in order of preference
PreferenceOrder == <<"id", "guid", "entry_id", "link", "title">>

\* The field of the entry at position i of the order is present and not empty
Filled(i) ==
    /\ PreferenceOrder[i] \in DOMAIN input.entry
    /\ input.entry[PreferenceOrder[i]] # <<>>

\* C13: entry_fingerprint returns the first non-empty value among the fields
\* id, guid, entry_id, link, title in that order, and the empty string
\* exactly when all five are absent or empty.
C13_PreferenceOrdered ==
    called = "entry_fingerprint" =>
        /\ \A i \in DOMAIN PreferenceOrder :
             (Filled(i) /\ \A j \in 1..(i - 1) : ~Filled(j))
             => returned.text = input.entry[PreferenceOrder[i]]
        /\ returned.text = <<>> <=> \A i \in DOMAIN PreferenceOrder : ~Filled(i)

\* C13 witness: an entry with both an id and a link: the id wins.
C13_Witness ==
    /\ called = "entry_fingerprint"
    /\ Filled(1) /\ Filled(4)
    /\ "guid" \in DOMAIN input.entry /\ ~Filled(2)
    /\ returned.text = input.entry["id"]
    /\ returned.text # input.entry["link"]

\* The upper-case letter of a lower-case letter of the keyword
UpperOf(c) ==
    CASE c = "c" -> "C"
      [] c = "o" -> "O"
      [] c = "p" -> "P"
      [] c = "i" -> "I"
      [] c = "l" -> "L"
      [] OTHER -> "T"

\* t contains the keyword "copilot", each letter in either case
HoldsKeyword(t) ==
    \E i \in 0..(Len(t) - 7) :
        \A j \in 1..7 : t[i + j] \in {copilot[j], UpperOf(copilot[j])}

\* Some tag's term or label, the category or the title holds the keyword
KeywordSomewhere ==
    LET e == input.entry
    IN  \/ /\ "tags" \in DOMAIN e
           /\ \E i \in DOMAIN e["tags"] : \E key \in DOMAIN e["tags"][i] :
                HoldsKeyword(e["tags"][i][key])
        \/ "category" \in DOMAIN e /\ HoldsKeyword(e["category"])
        \/ "title" \in DOMAIN e /\ HoldsKeyword(e["title"])

\* C14: is_copilot_tagged returns true for every entry in which some tag's
\* term or label, the category or the title contains the keyword in any
\* letter case, and false for every entry in which none does.
C14_TaggedIffKeyword ==
    called = "is_copilot_tagged" => (returned.flag <=> KeywordSomewhere)

\* C14 witness: the keyword in capitals in the label of the second tag, and
\* nowhere else.
C14_Witness ==
    /\ called = "is_copilot_tagged"
    /\ returned.flag
    /\ DOMAIN input.entry = {"tags", "category"}
    /\ input.entry["category"] = <<"c", "o", "p", "i", "l", "o">>
    /\ Len(input.entry["tags"]) = 2
    /\ input.entry["tags"][2] = [label |-> <<"C", "O", "P", "I", "L", "O", "T">>]

----------------------------------------------------------------------------
(* Claims about the posting modes of main *)

\* An explicit thread target is configured
ExplicitTarget == env.thread_id \/ env.thread_name # <<>>

\* The identifiers of the capped batch
BatchIds == {Fingerprint(to_send[k]) : k \in DOMAIN to_send}

\* The run takes a batched branch: an explicit thread, or single, or off
BatchedRun == ExplicitTarget \/ env.forum_mode \in {"single", "off"}

\* What the claim says of a batched run
AllOrNothing ==
    /\ Len(posts) <= 1
    /\ \A i \in DOMAIN posts :
         posts[i].items = to_send /\ posts[i].call.request.embeds = embeds
    /\ (Returned /\ to_send # <<>>) => Len(posts) = 1
    /\ (Returned /\ to_send # <<>> /\ ~FORCE_POST) =>
         \/ Confirmed2xx(1) /\ BatchIds \subseteq SeenIn(file)
         \/ Failed(1) /\ file = file0

\* C15, as claimed: with an explicit thread target, or in the mode single or
\* off, a run with survivors makes exactly one post carrying all capped
\* embeds; with force-repost off, after the run either the post succeeded
\* and the identifiers of the whole batch are in the state file, or the post
\* failed and the state file is unchanged.
C15_BatchedAllOrNothing == BatchedRun => AllOrNothing

\* C15, what the code does keep: the same for runs with the dry-run flag off.
C15_ExceptDryRun == (BatchedRun /\ ~DRY_RUN) => AllOrNothing

\* The run takes the per-item branch
PerItemRun == ~ExplicitTarget /\ env.forum_mode \in {"unset", "per-item"}

\* The identifiers of the entries whose own post returned 2xx
OwnPostSucceeded ==
    {Fingerprint(posts[i].items[1]) : i \in {j \in DOMAIN posts : Confirmed2xx(j)}}

\* One post per entry of the batch, in order, each with one embed and the
\* thread title `title` gives for the entry
OnePostEach(title(_)) ==
    /\ Len(posts) <= Len(to_send)
    /\ \A i \in DOMAIN posts :
         /\ posts[i].items = <<to_send[i]>>
         /\ Len(posts[i].call.request.embeds) = 1
         /\ posts[i].call.request.thread_name = title(to_send[i])
    /\ Returned => Len(posts) = Len(to_send)

\* The entry's own derived thread title
OwnTitle(p) == <<derive_thread_name(entries[p]).text>>

\* C16, as claimed: in per-item mode every entry of the capped batch gets
\* exactly one post attempt, carrying one embed and the entry's own derived
\* thread title, whether or not earlier attempts failed; with force-repost
\* off the identifiers added to the state file are exactly those of the
\* entries whose own post succeeded.
C16_PerItemEachOnce ==
    PerItemRun =>
        /\ OnePostEach(OwnTitle)
        /\ (Returned /\ ~FORCE_POST) => Added = OwnPostSucceeded

\* C16, what the code does keep: the same for runs with the dry-run flag
\* off, the payload carrying no thread title when the derived title is empty.
C16_ExceptDryRunAndEmptyTitle ==
    (PerItemRun /\ ~DRY_RUN) =>
        /\ OnePostEach(PayloadTitle)
        /\ (Returned /\ ~FORCE_POST) => Added = OwnPostSucceeded

\* The run takes the auto branch
AutoRun == ~ExplicitTarget /\ env.forum_mode \in {"auto", "other"}

\* The fallback posts of an auto run: the posts after the first
FallbackPosts == 2..Len(posts)

\* The identifiers of the entries whose fallback post returned 2xx
FallbackSucceeded ==
    {Fingerprint(posts[i].items[1]) : i \in {j \in FallbackPosts : Confirmed2xx(j)}}

\* The posts of an auto run: the batch first; nothing after a 2xx; after a
\* failure one untitled post per entry, in order
BatchThenItems ==
    /\ posts[1].items = to_send
    /\ Confirmed2xx(1) => Len(posts) = 1
    /\ Failed(1) =>
         /\ Len(posts) <= Len(to_send) + 1
         /\ Returned => Len(posts) = Len(to_send) + 1
         /\ \A i \in FallbackPosts :
              /\ posts[i].items = <<to_send[i - 1]>>
              /\ posts[i].call.request.thread_name = <<>>
    /\ \A p \in DOMAIN entries :
         Cardinality({i \in DOMAIN posts : Carries(i, p) /\ Confirmed2xx(i)}) <= 1

\* C17, as claimed: in auto mode, if the batched post succeeds no further
\* post is made and the whole capped batch is marked seen; if it fails, each
\* entry of the batch is then posted individually exactly once, in order,
\* with no thread title, and exactly the identifiers of the individually
\* successful posts are marked seen; no entry is carried by more than one
\* successful post.
C17_AutoBatchThenItems ==
    (AutoRun /\ posts # <<>>) =>
        /\ BatchThenItems
        /\ (Returned /\ Confirmed2xx(1)) => Added = BatchIds
        /\ (Returned /\ Failed(1)) => Added = FallbackSucceeded

\* C17, amended: the same with force-repost off; with force-repost on the
\* posts are made in the same way and nothing is marked seen.
C17_AutoBatchThenItemsUnlessForced ==
    (AutoRun /\ posts # <<>>) =>
        /\ BatchThenItems
        /\ (Returned /\ Confirmed2xx(1) /\ ~FORCE_POST) => Added = BatchIds
        /\ (Returned /\ Failed(1) /\ ~FORCE_POST) => Added = FallbackSucceeded
        /\ FORCE_POST => file = file0

\* C17 witness: an auto run of two entries whose batched post failed, whose
\* first fallback post failed and whose second succeeded.
C17_Witness ==
    /\ AutoRun /\ Returned /\ ~FORCE_POST /\ ~DRY_RUN
    /\ Len(to_send) = 2
    /\ Len(posts) = 3
    /\ Failed(1) /\ Failed(2) /\ Confirmed2xx(3)
    /\ Added = {Fingerprint(to_send[2])}
    /\ Fingerprint(to_send[1]) # Fingerprint(to_send[2])

\* C18, as claimed: of the entries of one run's feed that share an
\* identifier, at most one is posted in that run.
C18_OnePostPerIdentifier ==
    \A p, q \in Posted : Fingerprint(p) = Fingerprint(q) => p = q

\* C18, what the code does instead: every entry of the capped batch of a
\* run that returns is posted, entries that share an identifier included.
C18_TwinsAreBothPosted ==
    Returned => \A k \in DOMAIN to_send : to_send[k] \in Posted

\* Some post of the run returned 2xx
SomePostSucceeded == \E i \in DOMAIN posts : Confirmed2xx(i)

\* What the claim says of the writes of a run
WritesOnceAfterSuccess ==
    /\ file_writes <= 1
    /\ file_writes = 1 => SomePostSucceeded
    /\ ~SomePostSucceeded => file = file0

\* C19, as claimed: the state file is written at most once per run of main,
\* in every posting mode, and only in a run in which at least one post
\* succeeded; a run that exits early or in which every post failed writes
\* nothing.
C19_WrittenOnceAfterSuccess == WritesOnceAfterSuccess

\* C19, what the code does keep: the same for runs with the dry-run flag off.
C19_ExceptDryRun == ~DRY_RUN => WritesOnceAfterSuccess

----------------------------------------------------------------------------
(* Claims about cleaned titles *)

\* The title a call of _clean_title or derive_thread_name returned, and the
\* cap it was cleaned to
TitleReturned == called \in {"_clean_title", "derive_thread_name"}
TitleCap == IF called = "_clean_title" THEN input.max_len ELSE TitleMax

\* C20, as claimed: every title _clean_title returns, and so every title
\* derive_thread_name returns, has at most max_len characters, no quote
\* character or space at either end and no punctuation or separator
\* character at its end; and cleaning it again returns it unchanged.
C20_CleanTitleWellFormed ==
    TitleReturned =>
        /\ WellFormedTitle(returned.text, TitleCap)
        /\ _clean_title(returned.text, TitleCap) = returned.text

\* C20, what the code does keep: the title has at most max_len characters,
\* does not begin with a quote character or a space, and does not end with
\* whitespace; and a title that is well-formed is left unchanged by another
\* cleaning.
C20_LengthAndEdges ==
    TitleReturned =>
        /\ Len(returned.text) <= TitleCap
        /\ returned.text # <<>> =>
             /\ returned.text[1] \notin QuoteOrSpace
             /\ returned.text[Len(returned.text)] \notin Whitespace
        /\ WellFormedTitle(returned.text, TitleCap) =>
             _clean_title(returned.text, TitleCap) = returned.text

----------------------------------------------------------------------------
(* Consecutive runs of main on one feed and one state file *)

MaxRunFeed == 6
MaxRuns == 3
MaxFailures == 1

\* Feeds of up to MaxRunFeed tagged entries with identifiers of their own
\* and fixed publication times: newest first, or published two at a time.
RunFeeds ==
    {[i \in 1..n |-> LongEntry(i, n + 1 - i)] : n \in 0..MaxRunFeed}
    \cup {[i \in 1..n |-> LongEntry(i, (n + 2 - i) \div 2)] : n \in 2..MaxRunFeed}

\* The configurations of the runs: each branch of main, with and without
\* the force-repost and dry-run flags.
RunEnvs ==
    {e \in Envs :
        /\ e.webhook_url /\ e.thread_name = <<>>
        /\ ~e.github_token /\ ~e.openai_key
        /\ e.forum_mode \in {"unset", "auto", "single", "off"}
        /\ e.thread_id => e.forum_mode = "unset"}

\* The state files the runs start from: none, or one that holds an
\* identifier no entry of the feed has.
RunFiles == {AbsentFile, ArrayFile(<<<<"a">>>>)}

\* What a finished run leaves in `past`
RunRecord ==
    [posts |-> [i \in DOMAIN posts |->
                    [items |-> posts[i].items,
                     ok |-> posts[i].call.ok,
                     sent |-> posts[i].call.sent]],
     rc |-> rc]

\* The posts that failed so far, in this run and the earlier ones
FailuresSoFar ==
    Cardinality({i \in DOMAIN posts : posts[i].call.sent /\ ~posts[i].call.ok})
    + Cardinality({ri \in (DOMAIN past) \X (1..MAX_ITEMS_PER_RUN + 1) :
                      /\ ri[2] \in DOMAIN past[ri[1]].posts
                      /\ past[ri[1]].posts[ri[2]].sent
                      /\ ~past[ri[1]].posts[ri[2]].ok})

\* The webhook may fail MaxFailures posts in all
MayAnswer(outcome) == outcome = "2xx" \/ FailuresSoFar < MaxFailures

\* Lines 586-587, run again: the process has exited and the job starts the
\* next one, on the same feed, configuration and state file.
MainAgain ==
    /\ mpc = "done"
    /\ run < MaxRuns
    /\ run' = run + 1
    /\ past' = Append(past, RunRecord)
    /\ mpc' = "start"
    /\ rc' = -1
    /\ entries' = <<>>
    /\ seen' = {}
    /\ filtered' = <<>>
    /\ keys' = <<>>
    /\ to_send' = <<>>
    /\ embeds' = <<>>
    /\ idx' = 1
    /\ all_ok' = TRUE
    /\ posted_ids' = <<>>
    /\ posts' = <<>>
    /\ feed_fetches' = 0
    /\ gen_requests' = 0
    /\ file_reads' = 0
    /\ file_writes' = 0
    /\ UNCHANGED <<file, file0, storeVars, worldVars, helperVars, clock>>

InitRuns ==
    /\ file \in RunFiles
    /\ file0 = file
    /\ pc = [p \in Procs |-> "idle"]
    /\ arg = [p \in Procs |-> {}]
    /\ existing = [p \in Procs |-> {}]
    /\ pre = [p \in Procs |-> file]
    /\ budget = [p \in Procs |-> 0]
    /\ calls = <<>>
    /\ overlap = FALSE
    /\ env \in RunEnvs
    /\ llm = [github |-> Down, openai |-> Down]
    /\ feed \in RunFeeds
    /\ clock = 9
    /\ MainAt("start")
    /\ HelperIdle
    /\ FirstRun

NextRuns ==
    \/ MainFetch
    \/ MainNothingNew
    \/ MainSelect
    \/ \E outcome \in HttpOutcomes : MayAnswer(outcome) /\ MainPostBatch(outcome)
    \/ \E outcome \in HttpOutcomes : MayAnswer(outcome) /\ MainPostItem(outcome)
    \/ MainAgain

SpecRuns == InitRuns /\ [][NextRuns]_vars

----------------------------------------------------------------------------
(* Claims about consecutive runs *)

\* ceil(N / 5) for the N entries of the feed
RunsNeeded == (Len(feed) + MAX_ITEMS_PER_RUN - 1) \div MAX_ITEMS_PER_RUN

\* The runs so far, the one in progress last; and how many have returned
AllRuns == Append(past, RunRecord)
RunsReturned == Len(past) + (IF Returned THEN 1 ELSE 0)

\* The posts that carried the feed's entry p and returned 2xx, each as
\* <<run, post>>
SuccessfulCarries(p) ==
    {ri \in (DOMAIN AllRuns) \X (1..MAX_ITEMS_PER_RUN + 1) :
        /\ ri[2] \in DOMAIN AllRuns[ri[1]].posts
        /\ p \in Range(AllRuns[ri[1]].posts[ri[2]].items)
        /\ AllRuns[ri[1]].posts[ri[2]].sent
        /\ AllRuns[ri[1]].posts[ri[2]].ok}

\* The place of p in the items of the post ri
PlaceIn(ri, p) ==
    CHOOSE j \in DOMAIN AllRuns[ri[1]].posts[ri[2]].items :
        AllRuns[ri[1]].posts[ri[2]].items[j] = p

\* Some successful post delivered p before some successful post delivered q
DeliveredBefore(p, q) ==
    \E a \in SuccessfulCarries(p), b \in SuccessfulCarries(q) :
        \/ a[1] < b[1]
        \/ a[1] = b[1] /\ a[2] < b[2]
        \/ a = b /\ PlaceIn(a, p) < PlaceIn(b, q)

\* The publication time of the feed's entry p
PublishedAt(p) == entry_datetime_utc(feed[p], 0).ts

\* Once ceil(N / 5) runs have returned: every entry was carried by exactly
\* one successful post, in ascending order of publication, and the later
\* runs post nothing and return 0
Converged ==
    RunsReturned >= RunsNeeded =>
        /\ \A p \in DOMAIN feed : Cardinality(SuccessfulCarries(p)) = 1
        /\ \A p, q \in DOMAIN feed :
             DeliveredBefore(p, q) => PublishedAt(p) <= PublishedAt(q)
        /\ \A r \in DOMAIN AllRuns :
             r > RunsNeeded =>
                /\ AllRuns[r].posts = <<>>
                /\ AllRuns[r].rc \in {-1, 0}
                /\ (r < run \/ Returned) => AllRuns[r].rc = 0

\* The entries are relevant, dated, identified each by an identifier of its
\* own, and none is in the state file the runs start from
FreshFeed ==
    /\ \A p \in DOMAIN feed :
         /\ is_copilot_tagged(feed[p])
         /\ entry_fingerprint(feed[p]) # <<>>
         /\ entry_fingerprint(feed[p]) \notin SeenIn(file0)
         /\ ~entry_datetime_utc(feed[p], 0).read
    /\ \A p, q \in DOMAIN feed :
         entry_fingerprint(feed[p]) = entry_fingerprint(feed[q]) => p = q

\* C21, as claimed: with force-repost off, for a fixed feed of N relevant
\* entries with identifiers of their own and fixed publication times, none
\* seen at first, if every webhook post succeeds then after ceil(N / 5)
\* consecutive runs every entry has been carried by exactly one successful
\* post, the entries were delivered in ascending order of publication, and
\* every later run posts nothing and returns 0.
C21_ConvergesAcrossRuns ==
    (~env.force_post /\ FreshFeed /\ FailuresSoFar = 0) => Converged

\* C21, what the code does keep: the same for runs with the dry-run flag off.
C21_ExceptDryRun ==
    (~env.force_post /\ ~env.dry_run /\ FreshFeed /\ FailuresSoFar = 0) => Converged

\* After the runs needed have returned with the dry-run flag off, whatever
\* failed on the way, no entry was carried by two successful posts.
C21_AtMostOnceWhenIdsDiffer ==
    (~env.force_post /\ ~env.dry_run /\ FreshFeed) =>
        \A p \in DOMAIN feed : Cardinality(SuccessfulCarries(p)) <= 1

\* The entries of the run that are tagged and carry an identifier, seen or not
TaggedAndIdentified ==
    {p \in DOMAIN entries :
        is_copilot_tagged(entries[p]) /\ Fingerprint(p) # <<>>}

\* C22: with the force-repost flag set, a run selects every tagged entry
\* that has an identifier, whether or not the Seen Set holds it, and never
\* writes the state file: in every posting mode and whatever its posts
\* return, the file stays as the run found it, and the run that returns has
\* tried to post the first MAX_ITEMS_PER_RUN of the selected entries.
C22_ForceIgnoresSeenKeepsFile ==
    env.force_post =>
        /\ file = file0
        /\ file_writes = 0
        /\ mpc \in {"batch", "items", "done"} =>
             /\ Range(filtered) = TaggedAndIdentified
             /\ to_send = Prefix(filtered, MAX_ITEMS_PER_RUN)
        /\ Posted \subseteq Range(to_send)
        /\ Returned => Posted = Range(to_send)

\* C22 witness: a forced run on a state file that already holds "a" posts
\* the entry "a" again, one post succeeding and one failing, and returns
\* with the file untouched.
C22_Witness ==
    /\ env.force_post /\ ~env.dry_run
    /\ Returned
    /\ feed = ScenarioFeed
    /\ file0 = ArrayFile(<<<<"a">>>>)
    /\ entries = feed
    /\ Fingerprint(1) \in seen
    /\ \E i \in DOMAIN posts : Carries(i, 1) /\ Confirmed2xx(i)
    /\ \E i \in DOMAIN posts : Failed(i)
    /\ file = file0
====
